---- MODULE Spec2Model ----
(***************************************************************************)
(* Model of plotagem_processos/main.py: a Streamlit script whose main()    *)
(* runs an endless update loop.  Each iteration reads the wall clock and   *)
(* three host metrics, writes them into three session-state DataFrames     *)
(* keyed by the timestamp, trims each DataFrame with tail(chart_history),  *)
(* renders three metric cards and three charts, and sleeps.                *)
(*                                                                         *)
(* A DataFrame is modelled as the sequence of its rows in index order,     *)
(* each row a record [t |-> label, v |-> value].  The label is the reading *)
(* of pd.Timestamp.now(), the naive local wall clock: any value of Times   *)
(* on any tick, since that clock can be set back or repeat an hour.        *)
(* Numbers are integers; the one-decimal text that format_bytes produces   *)
(* is modelled by its value in tenths, and the y-axis range of create_plot *)
(* in tenths as well (0.1 * range is then an integer).                     *)
(*                                                                         *)
(* The script runs under Streamlit's script runner: moving a slider        *)
(* requests a rerun and a stop request ends the run.  The running script   *)
(* honours a request only at a yield point, that is inside an access to    *)
(* st.session_state or a call that emits an element; psutil, pandas and    *)
(* time.sleep are not yield points.  The loop body therefore advances one  *)
(* statement of lines 194-203 at a time, and a request that is pending     *)
(* when the script reaches such a statement ends the run before the        *)
(* statement takes effect.  The rendering of lines 206-231 is one step,    *)
(* honouring a request at its first call.  If no script is running (it     *)
(* ended with an exception or was stopped), a slider change starts a new   *)
(* run at once.  st.session_state outlives the runs; the placeholders of   *)
(* lines 148-168 are created empty by every run.  Of the two sliders only  *)
(* the history slider is moved; update_interval keeps its first value.     *)
(***************************************************************************)
EXTENDS Integers, Sequences, FiniteSets

\* ------------------------------------------------------------------ bounds
MaxTime == 1          \* wall-clock readings are drawn from 0..MaxTime
MaxRuns == 2          \* runs of the script in one session
MinHistory == 1       \* smallest and largest value of the history slider
MaxHistory == 2       \*   (10 and 100 in the source, scaled down)
MaxMant == 3          \* mantissas 0..MaxMant of the format_bytes inputs

\* ------------------------------------------------- program constants
MinInterval == 1      \* smallest and largest value of the interval slider
MaxInterval == 30
SamplingWindow == 1   \* psutil.cpu_percent(interval=1) blocks for one second
KiB == 1024           \* divisor and threshold of format_bytes
FlatPadding == 1      \* padding of create_plot when y_range is zero

Times == 0..MaxTime
HistoryValues == MinHistory..MaxHistory
IntervalValues == {MinInterval, MaxInterval}
\* what one iteration can read from psutil: process count, CPU %, used MB
Snapshots == {[process |-> 100, cpu |-> 0, ram |-> 500],
              [process |-> 101, cpu |-> 5, ram |-> 2048]}
Metrics == {"process", "cpu", "ram"}

VARIABLES
  process_data,     \* st.session_state.process_data
  cpu_data,         \* st.session_state.cpu_data
  ram_data,         \* st.session_state.ram_data
  update_interval,  \* local of main(), read from the slider when the script starts
  chart_history,    \* local of main(), read from the slider when the script starts
  pending,          \* request of the script runner not yet honoured
  pc,               \* position of the script
  current_time,     \* locals of the loop body
  process_count,
  cpu_usage,
  ram_usage,
  failed,           \* the metric whose read raised, "none" if none did
  cards,            \* what the three metric placeholders show
  charts,           \* y-axis range of the three chart placeholders
  elapsed,          \* seconds since the current iteration started
  runs,             \* runs of the script started so far
  fb_in,            \* argument of a stand-alone format_bytes call
  fb_out            \* its result

vars == <<process_data, cpu_data, ram_data, update_interval, chart_history,
          pending, pc, current_time, process_count, cpu_usage, ram_usage,
          failed, cards, charts, elapsed, runs, fb_in, fb_out>>

series == <<process_data, cpu_data, ram_data>>
locals == <<current_time, process_count, cpu_usage, ram_usage>>
shown == <<cards, charts>>
fmt == <<fb_in, fb_out>>
config == <<update_interval, chart_history, runs>>

None == [kind |-> "none"]
NoText == [tenths |-> 0, unit |-> "-"]
NoRange == [lo |-> 0, hi |-> 0]
NoCards == [process |-> 0, cpu |-> 0, ram |-> NoText]
NoCharts == [process |-> NoRange, cpu |-> NoRange, ram |-> NoRange]

Max(a, b) == IF a >= b THEN a ELSE b

\* ------------------------------------------------------------ DataFrames
Labels(df) == {df[i].t : i \in 1..Len(df)}
Values(df) == [i \in 1..Len(df) |-> df[i].v]
Index(df) == [i \in 1..Len(df) |-> df[i].t]

\* df.loc[t] = v : overwrite the row labelled t, or add a row at the end
LocSet(df, t, v) ==
  IF t \in Labels(df)
    THEN [i \in 1..Len(df) |-> IF df[i].t = t THEN [t |-> t, v |-> v] ELSE df[i]]
    ELSE Append(df, [t |-> t, v |-> v])

\* tail that keeps one row too many
tail_OffByOne(df, n) ==
  IF Len(df) <= n + 1 THEN df ELSE SubSeq(df, Len(df) - n, Len(df))

\* df.tail(n) for n >= 1 : the last n rows
tail(df, n) ==
  IF Len(df) <= n THEN df ELSE SubSeq(df, Len(df) - n + 1, Len(df))

\* ---------------------------------------------------------- format_bytes
Units == <<"MB", "GB", "TB">>

\* f"{w + f/d:.1f}" as a number of tenths, d a power of 1024, 0 <= f < d;
\* ties round to the even tenth.
OneDecimal(w, f, d) ==
  IF d = 1 THEN w * 10
  ELSE LET dh == d \div KiB
           fh == f \div KiB
           fl == f % KiB
           c == (fl * 10) \div KiB
           rl == (fl * 10) % KiB
           T == fh * 10 + c
           digit == T \div dh
           rem == (T % dh) * KiB + rl
           base == w * 10 + digit
           up == (rem * 2 > d) \/ (rem * 2 = d /\ base % 2 = 1)
       IN base + (IF up THEN 1 ELSE 0)

RECURSIVE FormatLoop(_, _, _, _)
\* the for loop, entered at unit i with bytes = w + f/d
FormatLoop(i, w, f, d) ==
  IF i > Len(Units)
    THEN [tenths |-> OneDecimal(w, f, d), unit |-> "TB"]
    ELSE IF w < KiB
      THEN [tenths |-> OneDecimal(w, f, d), unit |-> Units[i]]
      ELSE FormatLoop(i + 1, w \div KiB, (w % KiB) * d + f, d * KiB)

format_bytes(bytes) == FormatLoop(1, bytes, 0, 1)

\* ----------------------------------------------------------- create_plot
YValues(df) == {df[i].v : i \in 1..Len(df)}
SetMin(S) == CHOOSE x \in S : \A y \in S : x <= y
SetMax(S) == CHOOSE x \in S : \A y \in S : x >= y

\* create_plot without the special case of a flat series
create_plot_ZeroPad(df) ==
  LET y_min == SetMin(YValues(df))
      y_max == SetMax(YValues(df))
      padding == y_max - y_min
  IN [lo |-> Max(0, 10 * y_min - padding), hi |-> 10 * y_max + padding]

\* the yaxis range of the figure, in tenths
create_plot(df) ==
  LET y_min == SetMin(YValues(df))
      y_max == SetMax(YValues(df))
      y_range == y_max - y_min
      padding == IF y_range > 0 THEN y_range ELSE 10 * FlatPadding
  IN [lo |-> Max(0, 10 * y_min - padding), hi |-> 10 * y_max + padding]

\* ------------------------------------------------------------- the loop
Init ==
  /\ process_data = <<>>
  /\ cpu_data = <<>>
  /\ ram_data = <<>>
  /\ update_interval \in IntervalValues
  /\ chart_history \in HistoryValues
  /\ pending = None
  /\ pc = "sample"
  /\ current_time = 0
  /\ process_count = 0
  /\ cpu_usage = 0
  /\ ram_usage = 0
  /\ failed = "none"
  /\ cards = NoCards
  /\ charts = NoCharts
  /\ elapsed = 0
  /\ runs = 1
  /\ fb_in = 0
  /\ fb_out = NoText

\* lines 186-191, all three reads return
Sample ==
  /\ pc = "sample"
  /\ \E t \in Times, s \in Snapshots :
       /\ current_time' = t
       /\ process_count' = s.process
       /\ cpu_usage' = s.cpu
       /\ ram_usage' = s.ram
  /\ elapsed' = SamplingWindow
  /\ pc' = "store_process"
  /\ UNCHANGED <<series, config, pending, failed, shown, fmt>>

\* lines 186-191, one read raises: nothing catches it, the run ends
SampleRaises ==
  /\ pc = "sample"
  /\ \E m \in Metrics : failed' = m
  /\ current_time' \in Times
  /\ pc' = "crashed"
  /\ UNCHANGED <<series, config, pending, process_count, cpu_usage, ram_usage,
                 shown, elapsed, fmt>>

\* the statements of lines 194-231 that reach a yield point, in program order
YieldPoints == <<"store_process", "store_cpu", "store_ram",
                 "trim_process", "trim_cpu", "trim_ram", "render">>
AtYieldPoint == \E i \in 1..Len(YieldPoints) : pc = YieldPoints[i]

\* the statement at pc runs: no request is pending
Step(here, there) ==
  /\ pc = here
  /\ pending = None
  /\ pc' = there
  /\ UNCHANGED <<config, pending, locals, failed, elapsed, fmt>>

\* line 194
StoreProcess ==
  /\ Step("store_process", "store_cpu")
  /\ process_data' = LocSet(process_data, current_time, process_count)
  /\ UNCHANGED <<cpu_data, ram_data, shown>>

\* line 195
StoreCpu ==
  /\ Step("store_cpu", "store_ram")
  /\ cpu_data' = LocSet(cpu_data, current_time, cpu_usage)
  /\ UNCHANGED <<process_data, ram_data, shown>>

\* line 196
StoreRam ==
  /\ Step("store_ram", "trim_process")
  /\ ram_data' = LocSet(ram_data, current_time, ram_usage)
  /\ UNCHANGED <<process_data, cpu_data, shown>>

\* lines 199-201
TrimProcess ==
  /\ Step("trim_process", "trim_cpu")
  /\ process_data' = tail(process_data, chart_history)
  /\ UNCHANGED <<cpu_data, ram_data, shown>>

\* line 202
TrimCpu ==
  /\ Step("trim_cpu", "trim_ram")
  /\ cpu_data' = tail(cpu_data, chart_history)
  /\ UNCHANGED <<process_data, ram_data, shown>>

\* line 203
TrimRam ==
  /\ Step("trim_ram", "render")
  /\ ram_data' = tail(ram_data, chart_history)
  /\ UNCHANGED <<process_data, cpu_data, shown>>

\* lines 206-231
Render ==
  /\ Step("render", "sleep")
  /\ cards' = [process |-> process_count, cpu |-> cpu_usage,
               ram |-> format_bytes(ram_usage)]
  /\ charts' = [process |-> create_plot(process_data), cpu |-> create_plot(cpu_data),
                ram |-> create_plot(ram_data)]
  /\ UNCHANGED series

\* line 234
Sleep ==
  /\ pc = "sleep"
  /\ elapsed' = elapsed + update_interval
  /\ pc' = "sample"
  /\ UNCHANGED <<series, config, pending, locals, failed, shown, fmt>>

\* a new run of the script up to the loop, lines 129-184, the history slider at h
StartRun(h) ==
  /\ runs < MaxRuns
  /\ runs' = runs + 1
  /\ chart_history' = h
  /\ pending' = None
  /\ failed' = "none"
  /\ cards' = NoCards
  /\ charts' = NoCharts
  /\ elapsed' = 0
  /\ pc' = "sample"
  /\ UNCHANGED <<series, update_interval, locals, fmt>>

\* a pending rerun is honoured at a yield point: the run ends and a new one starts
Rerun ==
  /\ AtYieldPoint
  /\ pending.kind = "rerun"
  /\ StartRun(pending.history)

\* a pending stop is honoured at a yield point: the run ends
Stop ==
  /\ AtYieldPoint
  /\ pending.kind = "stop"
  /\ pending' = None
  /\ pc' = "stopped"
  /\ UNCHANGED <<series, config, locals, failed, shown, elapsed, fmt>>

Running == pc \notin {"crashed", "stopped"}

\* line 135, the history slider is moved while the script runs
SliderChange ==
  /\ Running
  /\ runs < MaxRuns
  /\ \E h \in HistoryValues : pending' = [kind |-> "rerun", history |-> h]
  /\ UNCHANGED <<series, config, pc, locals, failed, shown, elapsed, fmt>>

\* line 135, the history slider is moved after the script ended
SliderRestart ==
  /\ ~Running
  /\ \E h \in HistoryValues : StartRun(h)

\* the script runner is asked to stop the run
StopRequest ==
  /\ Running
  /\ pending.kind # "stop"
  /\ pending' = [kind |-> "stop"]
  /\ UNCHANGED <<series, config, pc, locals, failed, shown, elapsed, fmt>>

Next ==
  \/ Sample
  \/ SampleRaises
  \/ StoreProcess
  \/ StoreCpu
  \/ StoreRam
  \/ TrimProcess
  \/ TrimCpu
  \/ TrimRam
  \/ Render
  \/ Sleep
  \/ Rerun
  \/ Stop
  \/ SliderChange
  \/ SliderRestart
  \/ StopRequest

Spec == Init /\ [][Next]_vars

\* --------------------------------------------- format_bytes on its own
\* megabyte counts below 2^31: small ones, and multiples of 1024, 1024^2 and
\* 1024^3 with remainders that fall on, below and above a rounding tie
Mantissas == (0..MaxMant) \cup {500, 1023}
Remainders == {0, 51, 52, 256, 512, 768, 1023}
FormatInputs ==
  Mantissas
    \cup {a * KiB + b : a \in Mantissas \ {0}, b \in Remainders}
    \cup {a * KiB * KiB + b * KiB : a \in Mantissas \ {0}, b \in Remainders}
    \cup {KiB * KiB * KiB + b * KiB * KiB : b \in {0, 512}}

InitFormat ==
  /\ process_data = <<>>
  /\ cpu_data = <<>>
  /\ ram_data = <<>>
  /\ update_interval = MinInterval
  /\ chart_history = MinHistory
  /\ pending = None
  /\ pc = "sample"
  /\ current_time = 0
  /\ process_count = 0
  /\ cpu_usage = 0
  /\ ram_usage = 0
  /\ failed = "none"
  /\ cards = NoCards
  /\ charts = NoCharts
  /\ elapsed = 0
  /\ runs = 1
  /\ fb_in \in FormatInputs
  /\ fb_out = NoText

\* line 175, format_bytes applied to a megabyte count
FormatBytesCall ==
  /\ fb_out = NoText
  /\ fb_out' = format_bytes(fb_in)
  /\ UNCHANGED <<series, config, pending, pc, locals, failed, shown, elapsed, fb_in>>

NextFormat == FormatBytesCall

SpecFormat == InitFormat /\ [][NextFormat]_vars

\* ================================================================ claims
EndOfTick == pc \in {"render", "sleep"}
AllSeries == {process_data, cpu_data, ram_data}

Min(a, b) == IF a <= b THEN a ELSE b

\* the last min(Len(s), n) entries of s, in order
LastN(s, n) ==
  LET k == Min(Len(s), n) IN [i \in 1..k |-> s[Len(s) - k + i]]

\* C1: at the end of a tick, after the append and the trim, each of the three
\* series holds at most chart_history rows.
C1_LengthBound ==
  EndOfTick => \A df \in AllSeries : Len(df) <= chart_history

\* C1 witness: the trim has cut process_data and cpu_data to a full history while
\* ram_data still holds the one row more that the append gave it.
C1_TrimActed ==
  /\ pc = "trim_ram"
  /\ Len(ram_data) = chart_history + 1
  /\ process_data # <<>>
  /\ Index(process_data) = Tail(Index(ram_data))
  /\ Index(cpu_data) = Tail(Index(ram_data))

\* C2: a tick appends the sampled value at the end of each series and the trim
\* keeps exactly the last chart_history values in their order (FIFO).
C2_FIFO ==
  [][ /\ (pc = "store_process" /\ pc' = "store_cpu"
            => Values(process_data') = Append(Values(process_data), process_count))
      /\ (pc = "store_cpu" /\ pc' = "store_ram"
            => Values(cpu_data') = Append(Values(cpu_data), cpu_usage))
      /\ (pc = "store_ram" /\ pc' = "trim_process"
            => Values(ram_data') = Append(Values(ram_data), ram_usage))
      /\ (pc = "trim_process" /\ pc' = "trim_cpu"
            => process_data' = LastN(process_data, chart_history))
      /\ (pc = "trim_cpu" /\ pc' = "trim_ram"
            => cpu_data' = LastN(cpu_data, chart_history))
      /\ (pc = "trim_ram" /\ pc' = "render"
            => ram_data' = LastN(ram_data, chart_history)) ]_vars

\* C3: when exactly one metric read raises, the loop does not crash: it goes on
\* to the store, which leaves the failed metric's series unchanged and appends
\* to the other two.
C3_PartialFailure ==
  [][ /\ (pc = "sample" /\ failed' # "none" => pc' = "store_process")
      /\ (pc = "store_process" /\ pc' = "store_cpu" /\ failed = "process"
            => process_data' = process_data)
      /\ (pc = "store_cpu" /\ pc' = "store_ram" /\ failed = "cpu"
            => cpu_data' = cpu_data)
      /\ (pc = "store_ram" /\ pc' = "trim_process" /\ failed = "ram"
            => ram_data' = ram_data) ]_vars

\* C4: in the step that changes the history capacity to k, every series longer
\* than k becomes its own last k rows.
C4_SetCapacity ==
  [][ chart_history' # chart_history =>
        /\ (Len(process_data) > chart_history'
              => process_data' = LastN(process_data, chart_history'))
        /\ (Len(cpu_data) > chart_history'
              => cpu_data' = LastN(cpu_data, chart_history'))
        /\ (Len(ram_data) > chart_history'
              => ram_data' = LastN(ram_data, chart_history')) ]_vars

\* C5: at the end of a tick the timestamps of every series are non-decreasing
\* from the first row to the last.
C5_Chronological ==
  EndOfTick =>
    \A df \in AllSeries : \A i \in 1..(Len(df) - 1) : df[i].t <= df[i + 1].t

\* the y-axis range as the specification states it, in tenths
StatedRange(df) ==
  LET lo == SetMin(YValues(df))
      hi == SetMax(YValues(df))
  IN IF hi > lo
       THEN [lo |-> Max(0, 10 * lo - (hi - lo)), hi |-> 10 * hi + (hi - lo)]
       ELSE [lo |-> 10 * lo - 10, hi |-> 10 * hi + 10]

\* the same with the lower end of a flat series clamped at zero
ClampedRange(df) ==
  LET r == StatedRange(df) IN [lo |-> Max(0, r.lo), hi |-> r.hi]

Rendered == pc = "sleep"

\* C6 as stated: every chart rendered from a series has the stated y-axis
\* range, a flat series of value v the range [v-1, v+1].
C6_StatedAxisRange ==
  Rendered =>
    /\ charts.process = StatedRange(process_data)
    /\ charts.cpu = StatedRange(cpu_data)
    /\ charts.ram = StatedRange(ram_data)

\* C6 amended: the lower end of the range is clamped at zero for a flat series
\* too, so a flat series of value v gets [max(0, v-1), v+1].
C6_ClampedAxisRange ==
  Rendered =>
    /\ charts.process = ClampedRange(process_data)
    /\ charts.cpu = ClampedRange(cpu_data)
    /\ charts.ram = ClampedRange(ram_data)

\* C6 witness: a flat CPU series of value 0 and a process series with a
\* positive range have been rendered.
C6_FlatBelowOne ==
  /\ Rendered
  /\ YValues(cpu_data) = {0}
  /\ Cardinality(YValues(process_data)) = 2
  /\ charts.cpu.lo = 0

\* the text the specification states for x megabytes
StatedFormat(x) ==
  IF x < KiB
    THEN [tenths |-> OneDecimal(x, 0, 1), unit |-> "MB"]
    ELSE IF x < KiB * KiB
      THEN [tenths |-> OneDecimal(x \div KiB, x % KiB, KiB), unit |-> "GB"]
      ELSE [tenths |-> OneDecimal(x \div (KiB * KiB), x % (KiB * KiB), KiB * KiB),
            unit |-> "TB"]

\* C7: format_bytes(x) is x in MB below 1024, x/1024 in GB below 1024^2 and
\* x/1024^2 in TB from there on, to one decimal place.
C7_UnitScaling ==
  fb_out # NoText => fb_out = StatedFormat(fb_in)

\* C8: with a stop pending, the loop leaves Idle only into Stopped, and a tick
\* in progress is not cut short.
C8_StopAtIdle ==
  [][ pending.kind = "stop" =>
        /\ (pc = "sleep" => pc' \in {"sleep", "stopped"})
        /\ (AtYieldPoint => pc' # "stopped") ]_vars

\* C9: when a tick starts after an earlier one of the same run, the time since
\* the earlier one started is max(update_interval, SamplingWindow).
C9_TickPeriod ==
  (pc = "sample" /\ elapsed # 0) => elapsed = Max(update_interval, SamplingWindow)

\* C10: at the end of a tick the three series have the same timestamps in the
\* same order, hence the same length.
C10_SameIndex ==
  EndOfTick =>
    /\ Index(process_data) = Index(cpu_data)
    /\ Index(cpu_data) = Index(ram_data)

====
